---- MODULE Spec2Model ----
(***************************************************************************)
(* A model of src/main.py: the translation orchestrator (LRUCache,         *)
(* translate_text, batch_translate_elements and the jobs that call them)   *)
(* and the page layout engine (build_gap_rects_from_text_blocks,           *)
(* should_keep_cropped_region, parse_page).                                *)
(*                                                                         *)
(* A Python str is a sequence of symbols.  Every symbol is one character,  *)
(* except "W", which stands for a run of LongRun letters, and the caption  *)
(* words ("Fig."), which stand for their letters.  "sp" is a blank, "nl"   *)
(* a line feed, "dot" a full stop.                                         *)
(***************************************************************************)
EXTENDS Integers, Sequences, FiniteSets, TLC

VARIABLES
    cache,      \* _TRANSLATION_CACHE._data: <<[key, val]>>, least recently used first
    errors,     \* st.session_state["translate_errors"]
    th,         \* the translate_text calls of the running batch, one per task
    input,      \* the element list as batch_translate_elements received it
    elements,   \* the element list as batch_translate_elements returned it
    indices,    \* batch_translate_elements: indices
    mainpc,     \* where the script is: idle, page, batch, render, crashed
    jobKind,    \* "export" or "preview"
    report,     \* the error count the finished job shows
    budget,     \* what is left to explore: jobs to start, elements per batch
    sent,       \* history: which call sent which (text, flag) to the service
    lastCall    \* history: the translate_text call that completed last

tvars == <<cache, errors, th, input, elements, indices, mainpc, jobKind,
           report, budget, sent, lastCall>>

VARIABLES
    page,       \* the page parse_page reads: [width, height, blocks]
    params,     \* [min_gap_height, top_margin, bottom_margin, side_margin]
    ppc,        \* where parse_page is: none, start, classify, assemble, translate, done, raised
    gap_rects,  \* parse_page: gap_rects
    cropped,    \* parse_page: cropped_images, the rectangles kept
    probed,     \* history: what should_keep_cropped_region saw and said, per gap
    text_blocks,\* history: the blocks build_gap_rects_from_text_blocks took as text_rects
    streamSrc   \* history: per element of the stream, the y0 and blocks it is made of

pvars == <<page, params, ppc, gap_rects, cropped, probed, text_blocks, streamSrc>>

pvars_but_ppc == <<page, params, gap_rects, cropped, probed, text_blocks, streamSrc>>

VARIABLES
    fn,         \* a function called on its own: its name and its arguments
    fret,       \* what that call returned
    lru,        \* an LRUCache object of its own: [max_size, data]
    lruUse,     \* history: the keys of lru, least recently used first
    lruVal,     \* history: the value of the latest set of each key of lru
    lruLast     \* history: the last operation on lru and what it returned

fvars == <<fn, fret, lru, lruUse, lruVal, lruLast>>

vars == <<tvars, pvars, fvars>>

-----------------------------------------------------------------------------
(* Strings *)

MAX_CHARS == 2500
LongRun == 1300
CaptionWords == {"Fig.", "Figure", "Table"}
Digits == {"1"}
WS == {"sp", "nl"}
SentEnd == {"dot"}

CharLen(c) ==
    IF c = "W" THEN LongRun
    ELSE IF c = "Fig." THEN 4
    ELSE IF c = "Figure" THEN 6
    ELSE IF c = "Table" THEN 5
    ELSE 1

RECURSIVE PyLen(_)
PyLen(s) == IF s = <<>> THEN 0 ELSE CharLen(Head(s)) + PyLen(Tail(s))

RECURSIVE LStrip(_)
LStrip(s) == IF s # <<>> /\ Head(s) \in WS THEN LStrip(Tail(s)) ELSE s

RECURSIVE RStrip(_)
RStrip(s) ==
    IF s # <<>> /\ s[Len(s)] \in WS THEN RStrip(SubSeq(s, 1, Len(s) - 1)) ELSE s

Strip(s) == RStrip(LStrip(s))

\* t.split("\n\n"): cur is the piece being read
RECURSIVE SplitParas(_, _)
SplitParas(s, cur) ==
    IF s = <<>> THEN <<cur>>
    ELSE IF Len(s) >= 2 /\ s[1] = "nl" /\ s[2] = "nl"
         THEN <<cur>> \o SplitParas(SubSeq(s, 3, Len(s)), <<>>)
         ELSE SplitParas(Tail(s), Append(cur, Head(s)))

\* re.split(r"(?<=[.!?;])\s+", para): a run of white space that follows a
\* sentence end separates two segments
RECURSIVE SplitSents(_, _)
SplitSents(s, cur) ==
    IF s = <<>> THEN <<cur>>
    ELSE IF Head(s) \in WS /\ cur # <<>> /\ cur[Len(cur)] \in SentEnd
         THEN <<cur>> \o SplitSents(LStrip(s), <<>>)
         ELSE SplitSents(Tail(s), Append(cur, Head(s)))

\* "\n\n".join(parts)
RECURSIVE JoinParas(_)
JoinParas(ps) ==
    IF ps = <<>> THEN <<>>
    ELSE IF Len(ps) = 1 THEN ps[1]
    ELSE ps[1] \o <<"nl", "nl">> \o JoinParas(Tail(ps))

\* the sentence loop of _split_text_for_translation; acc = [parts, buf]
RECURSIVE SentLoop(_, _, _)
SentLoop(segs, acc, max_chars) ==
    IF segs = <<>> THEN acc
    ELSE LET seg == Strip(Head(segs)) IN
         IF seg = <<>> THEN SentLoop(Tail(segs), acc, max_chars)
         ELSE IF PyLen(acc.buf) + PyLen(seg) + 1 <= max_chars
              THEN SentLoop(Tail(segs),
                            [acc EXCEPT !.buf = Strip(acc.buf \o <<"sp">> \o seg)],
                            max_chars)
              ELSE SentLoop(Tail(segs),
                            [parts |-> IF acc.buf # <<>>
                                       THEN Append(acc.parts, acc.buf)
                                       ELSE acc.parts,
                             buf |-> seg],
                            max_chars)

SentChunks(para, max_chars) ==
    LET r == SentLoop(SplitSents(para, <<>>), [parts |-> <<>>, buf |-> <<>>], max_chars)
    IN  IF r.buf # <<>> THEN Append(r.parts, r.buf) ELSE r.parts

\* the paragraph loop of _split_text_for_translation; acc = [parts, buf]
RECURSIVE ParaLoop(_, _, _)
ParaLoop(paras, acc, max_chars) ==
    IF paras = <<>> THEN acc
    ELSE LET para == Strip(Head(paras)) IN
         IF para = <<>> THEN ParaLoop(Tail(paras), acc, max_chars)
         ELSE IF PyLen(acc.buf) + PyLen(para) + 2 <= max_chars
              THEN ParaLoop(Tail(paras),
                            [acc EXCEPT !.buf = Strip(acc.buf \o <<"nl", "nl">> \o para)],
                            max_chars)
              ELSE LET flushed == IF acc.buf # <<>>
                                  THEN Append(acc.parts, acc.buf)
                                  ELSE acc.parts
                   IN  IF PyLen(para) > max_chars
                       THEN ParaLoop(Tail(paras),
                                     [parts |-> flushed \o SentChunks(para, max_chars),
                                      buf |-> <<>>],
                                     max_chars)
                       ELSE ParaLoop(Tail(paras),
                                     [parts |-> flushed, buf |-> para],
                                     max_chars)

SplitTextForTranslation(text, max_chars) ==
    LET t == Strip(text) IN
    IF PyLen(t) <= max_chars THEN <<t>>
    ELSE LET r == ParaLoop(SplitParas(t, <<>>), [parts |-> <<>>, buf |-> <<>>], max_chars)
         IN  IF r.buf # <<>> THEN Append(r.parts, r.buf) ELSE r.parts

-----------------------------------------------------------------------------
(* LRUCache: an OrderedDict as a sequence of [key, val], oldest first *)

CACHE_MAX_SIZE == 2500

RECURSIVE CacheIndex(_, _)
CacheIndex(data, key) ==
    IF data = <<>> THEN 0
    ELSE IF data[Len(data)].key = key THEN Len(data)
    ELSE CacheIndex(SubSeq(data, 1, Len(data) - 1), key)

RemoveAt(s, i) == SubSeq(s, 1, i - 1) \o SubSeq(s, i + 1, Len(s))

\* OrderedDict.move_to_end(key)
MoveToEnd(data, key) ==
    LET i == CacheIndex(data, key) IN Append(RemoveAt(data, i), data[i])

\* a get that leaves the order of the entries as it is
LRUGetNoTouch(data, key) ==
    LET i == CacheIndex(data, key) IN
    IF i = 0 THEN [found |-> FALSE, val |-> <<>>, data |-> data]
    ELSE [found |-> TRUE, val |-> data[i].val, data |-> data]

\* LRUCache.get: [found, val, data]
LRUGet(data, key) ==
    LET i == CacheIndex(data, key) IN
    IF i = 0 THEN [found |-> FALSE, val |-> <<>>, data |-> data]
    ELSE [found |-> TRUE, val |-> data[i].val, data |-> MoveToEnd(data, key)]

RECURSIVE PopOldest(_, _)
PopOldest(data, max_size) ==
    IF Len(data) > max_size THEN PopOldest(Tail(data), max_size) ELSE data

\* LRUCache.set: the new _data
LRUSet(data, key, value, max_size) ==
    LET i == CacheIndex(data, key)
        put == IF i = 0 THEN Append(data, [key |-> key, val |-> value])
               ELSE [data EXCEPT ![i].val = value]
    IN  PopOldest(MoveToEnd(put, key), max_size)

\* _cache_key: sha256 of text + "|cap" or "|txt"; the digest is modelled by
\* the string it is taken of (no two strings of the model collide)
CacheKey(text, is_caption) ==
    text \o (IF is_caption THEN <<"|cap">> ELSE <<"|txt">>)

-----------------------------------------------------------------------------
(* translate_text *)

DEFAULT_RETRIES == 3
MAX_WORKERS == 4
MaxElems == 2
MaxJobs == 2

ErrorKinds == {"APIConnectionError", "RateLimitError"}
\* what one chat.completions.create call can do: answer, answer with
\* message.content = None, or raise
Outcomes == {"ok", "no_content"} \cup ErrorKinds

NoneContent == <<"<None>">>
Raster == <<"<raster>">>

\* the service's answer to one part under the text or the caption prompt
Translate(part, is_caption) ==
    <<IF is_caption THEN "[zh-cap]" ELSE "[zh]">> \o part

\* a loop that goes round once more than range(retries)
RetryRangeInclusive(retries) == 0 .. retries

\* for attempt in range(retries)
RetryRange(retries) == 0 .. (retries - 1)

NoCall == [raw |-> <<>>, cap |-> FALSE, ret |-> <<>>, st |-> "none"]

Active == {"call", "set"}
Finished == {"returned", "raised"}

\* a call of translate_text(raw, is_caption) about to start.  called, gaveup
\* (per part done: the attempts made when all failed, 0 when answered),
\* logged (entries appended to the error list) and pred are history.
NewCall(raw, is_caption) ==
    [raw |-> raw, cap |-> is_caption, pc |-> "get", parts |-> <<>>, pi |-> 0,
     attempt |-> 0, last_err |-> "", out |-> <<>>, ret |-> <<>>,
     hit |-> FALSE, called |-> FALSE, gaveup |-> <<>>, logged |-> 0,
     pred |-> NoCall]

CallRecord(t) == [raw |-> t.raw, cap |-> t.cap, ret |-> t.ret, st |-> t.pc]

\* lines 225-232 and 244: the short-text return, the cache lookup, the split
GetStep(t, data) ==
    LET got == LRUGet(data, CacheKey(t.raw, t.cap)) IN
    IF PyLen(Strip(t.raw)) < 2
    THEN [t |-> [t EXCEPT !.pc = "returned", !.ret = t.raw], data |-> data]
    ELSE IF got.found
    THEN [t |-> [t EXCEPT !.pc = "returned", !.ret = got.val, !.hit = TRUE],
          data |-> got.data]
    ELSE [t |-> [t EXCEPT !.pc = IF RetryRange(DEFAULT_RETRIES) = {}
                                 THEN "set" ELSE "call",
                          !.parts = SplitTextForTranslation(t.raw, MAX_CHARS),
                          !.pi = 1],
          data |-> got.data]

\* lines 247-269: one pass of the retry loop for the current part, the
\* service doing o; when the loop ends, the fallback and the step to the
\* next part.  errs is what the pass appends to the error list.
AttemptStep(t, o) ==
    LET part == t.parts[t.pi]
        again == o \in ErrorKinds /\ (t.attempt + 1) \in RetryRange(DEFAULT_RETRIES)
        piece == IF o = "ok" THEN Translate(part, t.cap)
                 ELSE IF o = "no_content" THEN NoneContent
                 ELSE part
        last == t.pi = Len(t.parts)
        t1 == [t EXCEPT !.called = TRUE]
    IN  IF again
        THEN [t |-> [t1 EXCEPT !.attempt = @ + 1, !.last_err = o], errs |-> <<>>]
        ELSE [t |-> [t1 EXCEPT !.attempt = 0,
                               !.last_err = "",
                               !.out = Append(@, piece),
                               !.gaveup = Append(@, IF o \in ErrorKinds
                                                    THEN t.attempt + 1 ELSE 0),
                               !.logged = IF o \in ErrorKinds THEN @ + 1 ELSE @,
                               !.pi = IF last THEN @ ELSE @ + 1,
                               !.pc = IF last THEN "set" ELSE "call"],
              errs |-> IF o \in ErrorKinds
                       THEN <<[err |-> o, src |-> part]>> ELSE <<>>]

\* lines 271-273: join, cache, return; str.join raises TypeError on a None
SetStep(t, data) ==
    LET bad == \E i \in DOMAIN t.out : t.out[i] = NoneContent
        final == Strip(JoinParas(t.out))
    IN  IF bad THEN [t |-> [t EXCEPT !.pc = "raised"], data |-> data]
        ELSE [t |-> [t EXCEPT !.pc = "returned", !.ret = final],
              data |-> LRUSet(data, CacheKey(t.raw, t.cap), final, CACHE_MAX_SIZE)]

TGet(k) ==
    /\ mainpc = "batch"
    /\ k \in DOMAIN th
    /\ th[k].pc = "get"
    /\ Cardinality({j \in DOMAIN th : th[j].pc \in Active}) < MAX_WORKERS
    /\ LET alone == \A j \in DOMAIN th : j # k => th[j].pc \notin Active
           g == GetStep([th[k] EXCEPT !.pred = IF alone THEN lastCall ELSE NoCall],
                        cache)
       IN  /\ th' = [j \in DOMAIN th |->
                        IF j = k THEN g.t
                        ELSE IF th[j].pc \in Active
                        THEN [th[j] EXCEPT !.pred = NoCall]
                        ELSE th[j]]
           /\ cache' = g.data
           /\ lastCall' = IF g.t.pc = "returned" THEN CallRecord(g.t) ELSE lastCall
    /\ UNCHANGED <<errors, input, elements, indices, mainpc, jobKind, report,
                   budget, sent>>
    /\ UNCHANGED pvars
    /\ UNCHANGED fvars

TAttempt(k, o) ==
    /\ mainpc = "batch"
    /\ k \in DOMAIN th
    /\ th[k].pc = "call"
    /\ LET a == AttemptStep(th[k], o)
       IN  /\ th' = [th EXCEPT ![k] = a.t]
           /\ errors' = errors \o a.errs
           /\ sent' = sent \cup {[key |-> CacheKey(th[k].raw, th[k].cap),
                                  job |-> budget.jobs, task |-> k]}
    /\ UNCHANGED <<cache, input, elements, indices, mainpc, jobKind, report,
                   budget, lastCall>>
    /\ UNCHANGED pvars
    /\ UNCHANGED fvars

TSet(k) ==
    /\ mainpc = "batch"
    /\ k \in DOMAIN th
    /\ th[k].pc = "set"
    /\ LET f == SetStep(th[k], cache)
       IN  /\ th' = [th EXCEPT ![k] = f.t]
           /\ cache' = f.data
           /\ lastCall' = CallRecord(f.t)
    /\ UNCHANGED <<errors, input, elements, indices, mainpc, jobKind, report,
                   budget, sent>>
    /\ UNCHANGED pvars
    /\ UNCHANGED fvars

-----------------------------------------------------------------------------
(* batch_translate_elements and the jobs *)

ShortTexts == { <<"a", "b">>, <<"sp", "a", "b">>, <<"a">> }
LongTexts == { <<"W", "nl", "nl", "W">> }

ElemOptions(long) ==
    {[type |-> "image", content |-> Raster]}
    \cup {[type |-> ty, content |-> c] :
            ty \in {"text", "caption"},
            c \in ShortTexts \cup (IF long THEN LongTexts ELSE {})}

ElementLists(n, long) == UNION {[1 .. m -> ElemOptions(long)] : m \in 0 .. n}

Translatable(el) ==
    el.type \in {"text", "caption"} /\ PyLen(Strip(el.content)) >= 2

\* lines 276-283: indices
TaskIndices(els) ==
    SelectSeq([i \in 1 .. Len(els) |-> i], LAMBDA i : Translatable(els[i]))

\* lines 276-283: tasks, each as the call it becomes
Tasks(els) ==
    [k \in 1 .. Len(TaskIndices(els)) |->
        NewCall(els[TaskIndices(els)[k]].content,
                els[TaskIndices(els)[k]].type = "caption")]

\* the results in the reverse of the order of the tasks
CollectResultsReversed(calls) ==
    [k \in DOMAIN calls |-> calls[Len(calls) + 1 - k].ret]

\* line 289: list(ex.map(...)), the results in the order of the tasks
CollectResults(calls) == [k \in DOMAIN calls |-> calls[k].ret]

\* lines 291-292
AssignResults(els, idx, results) ==
    [i \in DOMAIN els |->
        IF \E k \in DOMAIN idx : idx[k] = i
        THEN [els[i] EXCEPT !.content = results[CHOOSE k \in DOMAIN idx : idx[k] = i]]
        ELSE els[i]]

\* the "generate PDF" button: line 779 clears the error list
ClickExport ==
    /\ mainpc \in {"idle", "crashed"}
    /\ budget.jobs > 0
    /\ budget' = [budget EXCEPT !.jobs = @ - 1]
    /\ errors' = <<>>
    /\ jobKind' = "export"
    /\ mainpc' = "page"
    /\ UNCHANGED <<cache, th, input, elements, indices, report, sent, lastCall>>
    /\ UNCHANGED pvars
    /\ UNCHANGED fvars

\* the "translate this page" button: lines 747-752
ClickPreview ==
    /\ mainpc \in {"idle", "crashed"}
    /\ budget.jobs > 0
    /\ budget' = [budget EXCEPT !.jobs = @ - 1]
    /\ jobKind' = "preview"
    /\ mainpc' = "page"
    /\ UNCHANGED <<cache, errors, th, input, elements, indices, report, sent,
                   lastCall>>
    /\ UNCHANGED pvars
    /\ UNCHANGED fvars

\* lines 275-288: the tasks are built and handed to the pool
BatchStart(els) ==
    /\ mainpc = "page"
    /\ input' = els
    /\ elements' = els
    /\ indices' = TaskIndices(els)
    /\ th' = Tasks(els)
    /\ mainpc' = IF TaskIndices(els) = <<>> THEN "render" ELSE "batch"
    /\ UNCHANGED <<cache, errors, jobKind, report, budget, sent, lastCall>>
    /\ UNCHANGED pvars
    /\ UNCHANGED fvars

\* lines 289-293: every task is over; an exception of a task leaves the
\* batch, parse_page and generate_html, and the script run ends
BatchJoin ==
    /\ mainpc = "batch"
    /\ \A k \in DOMAIN th : th[k].pc \in Finished
    /\ IF \E k \in DOMAIN th : th[k].pc = "raised"
       THEN /\ mainpc' = "crashed"
            /\ UNCHANGED elements
       ELSE /\ mainpc' = "render"
            /\ elements' = AssignResults(elements, indices, CollectResults(th))
    /\ th' = <<>>
    /\ UNCHANGED <<cache, errors, input, indices, jobKind, report, budget, sent,
                   lastCall>>
    /\ UNCHANGED pvars
    /\ UNCHANGED fvars

\* lines 803-806: the finished job shows how many translations failed (for a
\* preview, the length of the list the sidebar shows at lines 734-736)
JobDone ==
    /\ mainpc = "render"
    /\ report' = [kind |-> jobKind, count |-> Len(errors)]
    /\ mainpc' = "idle"
    /\ UNCHANGED <<cache, errors, th, input, elements, indices, jobKind, budget,
                   sent, lastCall>>
    /\ UNCHANGED pvars
    /\ UNCHANGED fvars

\* either one job whose batch runs up to MaxElems calls side by side, or up
\* to MaxJobs jobs of one call each, these with the long texts as well
Budgets ==
    {[jobs |-> 1, elems |-> MaxElems, long |-> FALSE],
     [jobs |-> MaxJobs, elems |-> 1, long |-> TRUE]}

NoPage == [width |-> 0, height |-> 0, blocks |-> <<>>]
NoParams == [min_gap_height |-> 0, top_margin |-> 0, bottom_margin |-> 0,
             side_margin |-> 0]

NoFn == [name |-> "none"]
NoRet == [st |-> "none"]
NoLru == [max_size |-> 0, data |-> <<>>]
NoOp == [op |-> "none"]

\* no function is called on its own, no cache but _TRANSLATION_CACHE is made
InitNoFn ==
    /\ fn = NoFn
    /\ fret = NoRet
    /\ lru = NoLru
    /\ lruUse = <<>>
    /\ lruVal = <<>>
    /\ lruLast = NoOp

InitProcess ==
    /\ jobKind = "none"
    /\ cache = <<>>
    /\ errors = <<>>
    /\ th = <<>>
    /\ input = <<>>
    /\ elements = <<>>
    /\ indices = <<>>
    /\ report = [kind |-> "none", count |-> 0]
    /\ sent = {}
    /\ lastCall = NoCall
    /\ gap_rects = <<>>
    /\ cropped = <<>>
    /\ probed = <<>>
    /\ text_blocks = {}
    /\ streamSrc = <<>>

InitT ==
    /\ InitProcess
    /\ InitNoFn
    /\ mainpc = "idle"
    /\ budget \in Budgets
    /\ page = NoPage
    /\ params = NoParams
    /\ ppc = "none"

NextT ==
    \/ ClickExport
    \/ ClickPreview
    \/ \E els \in ElementLists(budget.elems, budget.long) : BatchStart(els)
    \/ \E k \in 1 .. MaxElems : TGet(k)
    \/ \E k \in 1 .. MaxElems, o \in Outcomes : TAttempt(k, o)
    \/ \E k \in 1 .. MaxElems : TSet(k)
    \/ BatchJoin
    \/ JobDone

SpecT == InitT /\ [][NextT]_vars

-----------------------------------------------------------------------------
(* The page layout engine.  Coordinates are whole PDF units; 0.06 and 0.94  *)
(* are 6/100 and 94/100, a visual score is counted in 1/VScale.             *)

DEFAULT_MIN_GAP_HEIGHT == 120
DEFAULT_TOP_MARGIN == 60
DEFAULT_BOTTOM_MARGIN == 60
DEFAULT_SIDE_MARGIN == 40
THRESHOLD_LOW == 35
THRESHOLD_MID == 40
THRESHOLD_HIGH == 62
VScale == 10
MaxBlocks == 2

Max(a, b) == IF a >= b THEN a ELSE b
Min(a, b) == IF a <= b THEN a ELSE b

Rect(x0, y0, x1, y1) == [x0 |-> x0, y0 |-> y0, x1 |-> x1, y1 |-> y1]

\* fitz.Rect.height
RectHeight(r) == Max(0, r.y1 - r.y0)

\* a test on the top edge for the header and on the bottom edge for the footer
TopEdgeHeaderOrFooter(rect, page_height) ==
    \/ rect.y0 * 100 < page_height * 6
    \/ rect.y1 * 100 > page_height * 94

\* a test that takes no block for a header or a footer
NeverHeaderOrFooter(rect, page_height) == FALSE

\* lines 140-143
IsHeaderOrFooter(rect, page_height) ==
    \/ rect.y1 * 100 < page_height * 6
    \/ rect.y0 * 100 > page_height * 94

\* _CAPTION_RE.match(text.strip()): a caption word, white space or none, a digit
IsCaptionNode(text) ==
    LET t == Strip(text) IN
    /\ t # <<>>
    /\ Head(t) \in CaptionWords
    /\ LStrip(Tail(t)) # <<>>
    /\ Head(LStrip(Tail(t))) \in Digits

\* list.sort(key=...): the indices of keys in sorted order, equal keys in
\* their old order
RECURSIVE InsertSorted(_, _, _)
InsertSorted(ord, i, keys) ==
    IF ord = <<>> THEN <<i>>
    ELSE IF keys[ord[Len(ord)]] <= keys[i] THEN Append(ord, i)
    ELSE Append(InsertSorted(SubSeq(ord, 1, Len(ord) - 1), i, keys), ord[Len(ord)])

RECURSIVE OrderUpTo(_, _)
OrderUpTo(keys, n) ==
    IF n = 0 THEN <<>> ELSE InsertSorted(OrderUpTo(keys, n - 1), n, keys)

\* a list left in the order it has
KeepOrder(s) == s

\* s.sort(key=lambda it: it.rect.y0) for a list of records with a rect
SortByY0(s) ==
    LET ord == OrderUpTo([i \in DOMAIN s |-> s[i].rect.y0], Len(s))
    IN  [j \in DOMAIN s |-> s[ord[j]]]

\* lines 494-505 and 427-435: the blocks that are neither header nor footer
\* nor blank, in the order of the page, each with its number
BodyItems(pg) ==
    SelectSeq([i \in DOMAIN pg.blocks |->
                  [rect |-> pg.blocks[i].rect, text |-> pg.blocks[i].text, blk |-> i]],
              LAMBDA it : /\ ~IsHeaderOrFooter(it.rect, pg.height)
                          /\ Strip(it.text) # <<>>)

\* lines 446-452
RECURSIVE MergeLoop(_, _, _)
MergeLoop(rs, cur, merged) ==
    IF rs = <<>> THEN Append(merged, cur)
    ELSE LET r == Head(rs) IN
         IF r.y0 <= cur.y1 + 2
         THEN MergeLoop(Tail(rs),
                        [cur EXCEPT !.y1 = Max(cur.y1, r.y1),
                                    !.x0 = Min(cur.x0, r.x0),
                                    !.x1 = Max(cur.x1, r.x1)],
                        merged)
         ELSE MergeLoop(Tail(rs), r, Append(merged, cur))

\* lines 442-453: text_rects, sorted, to merged
MergedRects(text_rects) ==
    LET sorted == SortByY0([i \in DOMAIN text_rects |-> [rect |-> text_rects[i]]])
        rs == [i \in DOMAIN sorted |-> sorted[i].rect]
    IN  MergeLoop(Tail(rs), Head(rs), <<>>)

SafeTop(pg, top_margin) == Max(top_margin, (pg.height * 6) \div 100)
SafeBottom(pg, bottom_margin) ==
    Min(pg.height - bottom_margin, (pg.height * 94) \div 100)

\* lines 463-468; acc = [rects, last_y]
RECURSIVE GapLoop(_, _, _, _, _, _)
GapLoop(merged, acc, x0, x1, safe_bottom, min_gap_height) ==
    IF merged = <<>> THEN acc
    ELSE LET r == Head(merged)
             gap_top == acc.last_y
             gap_bottom == Min(r.y0, safe_bottom)
         IN  GapLoop(Tail(merged),
                     [rects |-> IF gap_bottom - gap_top >= min_gap_height
                                THEN Append(acc.rects, Rect(x0, gap_top, x1, gap_bottom))
                                ELSE acc.rects,
                      last_y |-> Max(acc.last_y, r.y1)],
                     x0, x1, safe_bottom, min_gap_height)

\* a last gap that is taken whatever its height
LastGapNoFloor(last_y, x0, x1, safe_bottom, min_gap_height) ==
    IF safe_bottom > last_y
    THEN <<Rect(x0, last_y, x1, safe_bottom)>>
    ELSE <<>>

\* lines 470-472
LastGap(last_y, x0, x1, safe_bottom, min_gap_height) ==
    IF safe_bottom - last_y >= min_gap_height
    THEN <<Rect(x0, last_y, x1, safe_bottom)>>
    ELSE <<>>

\* build_gap_rects_from_text_blocks
BuildGapRects(pg, min_gap_height, top_margin, bottom_margin, side_margin) ==
    LET items == BodyItems(pg)
        text_rects == [i \in DOMAIN items |-> items[i].rect]
        safe_top == SafeTop(pg, top_margin)
        safe_bottom == SafeBottom(pg, bottom_margin)
        x0 == side_margin
        x1 == pg.width - side_margin
    IN  IF text_rects = <<>> THEN <<>>
        ELSE LET g == GapLoop(MergedRects(text_rects),
                              [rects |-> <<>>, last_y |-> safe_top],
                              x0, x1, safe_bottom, min_gap_height)
             IN  g.rects \o LastGap(g.last_y, x0, x1, safe_bottom, min_gap_height)

\* is_formula_like_text, of a text with len(t) characters, symbols
\* mathematical symbols, singles one-letter words and words words of three
\* letters or more
IsFormulaLikeText(f) ==
    /\ f.len # 0
    /\ ~(f.len < 25)
    /\ f.symbols * 100 > 12 * Max(1, f.len)
    /\ f.singles * 100 > 55 * Max(1, f.words + f.singles)
    /\ f.words < 8

\* a decision with the lowest threshold for every kind of region
KeepAtLow(pr) == pr.vscore >= THRESHOLD_LOW * VScale

\* should_keep_cropped_region, of what the two probes return: pr.txt, the
\* stripped text of the region, and pr.vscore, the score of its raster
ShouldKeepCroppedRegion(pr) ==
    IF pr.txt.len < 10 THEN pr.vscore >= THRESHOLD_LOW * VScale
    ELSE IF ~IsFormulaLikeText(pr.txt) THEN pr.vscore >= THRESHOLD_MID * VScale
    ELSE pr.vscore >= THRESHOLD_HIGH * VScale

\* lines 518-525 for one gap rectangle: the rectangle when it is kept
CropGap(gr, pr, min_gap_height) ==
    IF RectHeight(gr) < min_gap_height THEN <<>>
    ELSE IF ShouldKeepCroppedRegion(pr)
            /\ pr.crop_ok
            /\ 2 * (gr.x1 - gr.x0) >= 120
            /\ 2 * RectHeight(gr) >= 80
         THEN <<gr>>
         ELSE <<>>

NoSrc == [kind |-> "none", y0 |-> 0, blocks |-> <<>>, rect |-> Rect(0, 0, 0, 0)]

\* flush_buffer; st = [elements, src, buffer, bufsrc, img_ptr]
FlushBuffer(st) ==
    IF Strip(st.buffer) # <<>>
    THEN [st EXCEPT !.elements = Append(@, [type |-> "text", content |-> st.buffer]),
                    !.src = Append(@, st.bufsrc),
                    !.buffer = <<>>,
                    !.bufsrc = NoSrc]
    ELSE st

EmitImage(st, gr) ==
    [st EXCEPT !.elements = Append(@, [type |-> "image", content |-> Raster]),
               !.src = Append(@, [kind |-> "image", y0 |-> gr.y0, blocks |-> <<>>,
                                  rect |-> gr]),
               !.img_ptr = @ + 1]

\* lines 556-559
RECURSIVE ImagesBefore(_, _, _)
ImagesBefore(st, imgs, r) ==
    IF st.img_ptr <= Len(imgs) /\ imgs[st.img_ptr].y0 <= r.y0 + 2
    THEN ImagesBefore(EmitImage(FlushBuffer(st), imgs[st.img_ptr]), imgs, r)
    ELSE st

\* lines 561-565
TakeEvent(st, e) ==
    IF e.kind = "cap"
    THEN LET f == FlushBuffer(st) IN
         [f EXCEPT !.elements = Append(@, [type |-> "caption", content |-> e.text]),
                   !.src = Append(@, [kind |-> "caption", y0 |-> e.rect.y0,
                                      blocks |-> <<e.blk>>, rect |-> e.rect])]
    ELSE [st EXCEPT !.buffer = @ \o e.text \o <<"nl", "nl">>,
                    !.bufsrc = IF st.bufsrc.kind = "none"
                               THEN [kind |-> "text", y0 |-> e.rect.y0,
                                     blocks |-> <<e.blk>>, rect |-> e.rect]
                               ELSE [@ EXCEPT !.blocks = Append(@, e.blk)]]

\* lines 554-567
RECURSIVE EventLoop(_, _, _)
EventLoop(st, events, imgs) ==
    IF events = <<>> THEN st
    ELSE EventLoop(TakeEvent(ImagesBefore(st, imgs, Head(events).rect), Head(events)),
                   Tail(events), imgs)

\* lines 570-573
RECURSIVE RestImages(_, _)
RestImages(st, imgs) ==
    IF st.img_ptr <= Len(imgs) THEN RestImages(EmitImage(st, imgs[st.img_ptr]), imgs)
    ELSE st

\* lines 529-573: the element stream and, beside it, what each element is made of
BuildStream(pg, kept) ==
    LET items == BodyItems(pg)
        text_items == SortByY0(SelectSeq(items, LAMBDA it : ~IsCaptionNode(it.text)))
        caption_items == SortByY0(SelectSeq(items, LAMBDA it : IsCaptionNode(it.text)))
        imgs == [j \in DOMAIN kept |-> SortByY0([i \in DOMAIN kept |-> [rect |-> kept[i]]])[j].rect]
        events == SortByY0(
            [i \in DOMAIN text_items |->
                [kind |-> "text", rect |-> text_items[i].rect,
                 text |-> text_items[i].text, blk |-> text_items[i].blk]]
            \o [i \in DOMAIN caption_items |->
                [kind |-> "cap", rect |-> caption_items[i].rect,
                 text |-> caption_items[i].text, blk |-> caption_items[i].blk]])
        st0 == [elements |-> <<>>, src |-> <<>>, buffer |-> <<>>, bufsrc |-> NoSrc,
                img_ptr |-> 1]
    IN  RestImages(FlushBuffer(EventLoop(st0, events, imgs)), imgs)

\* translate_text run to its end, the service doing o at every request
RECURSIVE RunCall(_, _, _, _)
RunCall(t, data, errs, o) ==
    IF t.pc = "get"
    THEN LET g == GetStep(t, data) IN RunCall(g.t, g.data, errs, o)
    ELSE IF t.pc = "call"
    THEN LET a == AttemptStep(t, o) IN RunCall(a.t, data, errs \o a.errs, o)
    ELSE IF t.pc = "set"
    THEN LET f == SetStep(t, data) IN RunCall(f.t, f.data, errs, o)
    ELSE [t |-> t, data |-> data, errs |-> errs]

\* the calls of a batch run one after the other, from the k-th on
RECURSIVE RunTasks(_, _, _, _, _)
RunTasks(calls, k, data, errs, o) ==
    IF k > Len(calls) THEN [calls |-> calls, data |-> data, errs |-> errs]
    ELSE LET r == RunCall(calls[k], data, errs, o)
         IN  RunTasks([calls EXCEPT ![k] = r.t], k + 1, r.data, r.errs, o)

-----------------------------------------------------------------------------
(* parse_page *)

\* lines 488-514: the blocks are read and the gap rectangles built
PStart ==
    /\ ppc = "start"
    /\ gap_rects' = BuildGapRects(page, params.min_gap_height, params.top_margin,
                                  params.bottom_margin, params.side_margin)
    /\ text_blocks' = {BodyItems(page)[i].blk : i \in DOMAIN BodyItems(page)}
    /\ ppc' = "classify"
    /\ UNCHANGED <<page, params, cropped, probed, streamSrc>>
    /\ UNCHANGED tvars
    /\ UNCHANGED fvars

\* lines 518-525, once round the loop: the next gap rectangle is probed
PClassify(pr) ==
    /\ ppc = "classify"
    /\ Len(probed) < Len(gap_rects)
    /\ LET gr == gap_rects[Len(probed) + 1] IN
       /\ cropped' = cropped \o CropGap(gr, pr, params.min_gap_height)
       /\ probed' = Append(probed, [rect |-> gr, probe |-> pr,
                                    keep |-> ShouldKeepCroppedRegion(pr)])
    /\ UNCHANGED <<page, params, ppc, gap_rects, text_blocks, streamSrc>>
    /\ UNCHANGED tvars
    /\ UNCHANGED fvars

\* lines 529-573: the element stream is built
PAssemble ==
    /\ ppc = "classify"
    /\ Len(probed) = Len(gap_rects)
    /\ input' = BuildStream(page, cropped).elements
    /\ streamSrc' = BuildStream(page, cropped).src
    /\ ppc' = "translate"
    /\ UNCHANGED <<page, params, gap_rects, cropped, probed, text_blocks>>
    /\ UNCHANGED <<cache, errors, th, elements, indices, mainpc, jobKind, report,
                   budget, sent, lastCall>>
    /\ UNCHANGED fvars

\* line 576: batch_translate_elements(elements), its calls run one after
\* the other (one of the schedules of TGet, TAttempt and TSet), the service
\* doing o at every request
PTranslate(o) ==
    /\ ppc = "translate"
    /\ LET run == RunTasks(Tasks(input), 1, cache, errors, o) IN
       /\ cache' = run.data
       /\ errors' = run.errs
       /\ indices' = TaskIndices(input)
       /\ IF \E k \in DOMAIN run.calls : run.calls[k].pc = "raised"
          THEN /\ ppc' = "raised"
               /\ elements' = <<>>
          ELSE /\ ppc' = "done"
               /\ elements' = AssignResults(input, TaskIndices(input),
                                            CollectResults(run.calls))
    /\ UNCHANGED <<th, input, mainpc, jobKind, report, budget, sent, lastCall>>
    /\ UNCHANGED pvars_but_ppc
    /\ UNCHANGED fvars

-----------------------------------------------------------------------------
(* The pages, parameters and probes the layout engine is run on *)

PageHeights == {790}
PageWidths == {600}

\* vertical extents of blocks in the body of a page 790 high, and of blocks
\* in its header and footer bands (above 47.4, below 742.6)
BodyYs ==
    { <<100, 200>>, <<199, 200>>, <<201, 300>>, <<203, 300>>, <<320, 400>>,
      <<600, 700>>, <<30, 48>>, <<742, 760>> }
CaptionYs == { <<100, 200>>, <<320, 400>> }
BlankYs == { <<320, 400>> }
BandYs == { <<30, 47>>, <<743, 760>> }

Block(ys, text) == [rect |-> Rect(50, ys[1], 550, ys[2]), text |-> text]

BlockOptions ==
    {Block(ys, <<"a", "b">>) : ys \in BodyYs}
    \cup {Block(ys, <<"Fig.", "sp", "1">>) : ys \in CaptionYs}
    \cup {Block(ys, <<"sp">>) : ys \in BlankYs}
    \cup {Block(ys, <<"h", "d">>) : ys \in BandYs}

Pages ==
    {[width |-> w, height |-> h, blocks |-> b] :
        w \in PageWidths, h \in PageHeights,
        b \in UNION {[1 .. m -> BlockOptions] : m \in 0 .. MaxBlocks}}

\* the sidebar's defaults and the least values its sliders allow
ParamSets ==
    {[min_gap_height |-> DEFAULT_MIN_GAP_HEIGHT, top_margin |-> DEFAULT_TOP_MARGIN,
      bottom_margin |-> DEFAULT_BOTTOM_MARGIN, side_margin |-> DEFAULT_SIDE_MARGIN],
     [min_gap_height |-> 60, top_margin |-> 0, bottom_margin |-> 0, side_margin |-> 0]}

NoText == [len |-> 0, symbols |-> 0, singles |-> 0, words |-> 0]
FormulaText == [len |-> 50, symbols |-> 7, singles |-> 9, words |-> 7]
ProseText == [len |-> 50, symbols |-> 0, singles |-> 1, words |-> 8]

PageProbes ==
    {[txt |-> NoText, vscore |-> 35 * VScale, crop_ok |-> TRUE],
     [txt |-> FormulaText, vscore |-> 62 * VScale - 1, crop_ok |-> TRUE],
     [txt |-> ProseText, vscore |-> 40 * VScale, crop_ok |-> FALSE]}

KeepTexts ==
    {NoText, FormulaText, ProseText,
     [len |-> 9, symbols |-> 3, singles |-> 3, words |-> 0],
     [len |-> 10, symbols |-> 4, singles |-> 3, words |-> 0],
     [len |-> 24, symbols |-> 10, singles |-> 7, words |-> 0],
     [len |-> 25, symbols |-> 4, singles |-> 6, words |-> 0],
     [len |-> 25, symbols |-> 3, singles |-> 6, words |-> 0],
     [len |-> 50, symbols |-> 6, singles |-> 9, words |-> 7],
     [len |-> 50, symbols |-> 7, singles |-> 8, words |-> 7],
     [len |-> 50, symbols |-> 7, singles |-> 10, words |-> 8]}

KeepScores ==
    {0} \cup {t * VScale + d : t \in {35, 40, 62}, d \in {-1, 0, 1}}

KeepProbes ==
    {[txt |-> f, vscore |-> v, crop_ok |-> c] :
        f \in KeepTexts, v \in KeepScores, c \in BOOLEAN}

\* generate_html is about to call parse_page on a page of the document
InitPage ==
    /\ InitProcess
    /\ InitNoFn
    /\ mainpc = "page"
    /\ budget = [jobs |-> 0, elems |-> 0, long |-> FALSE]
    /\ page \in Pages
    /\ params \in ParamSets
    /\ ppc = "start"

NextPage ==
    \/ PStart
    \/ \E pr \in PageProbes : PClassify(pr)
    \/ PAssemble
    \/ \E o \in Outcomes : PTranslate(o)

SpecPage == InitPage /\ [][NextPage]_vars

\* one page, one block of text, the default parameters: one gap rectangle
InitKeep ==
    /\ InitProcess
    /\ InitNoFn
    /\ mainpc = "page"
    /\ budget = [jobs |-> 0, elems |-> 0, long |-> FALSE]
    /\ page \in {pg \in Pages : pg.blocks = <<Block(<<100, 200>>, <<"a", "b">>)>>}
    /\ params \in {ps \in ParamSets : ps.min_gap_height = DEFAULT_MIN_GAP_HEIGHT}
    /\ ppc = "start"

NextKeep ==
    \/ PStart
    \/ \E pr \in KeepProbes : PClassify(pr)
    \/ PAssemble
    \/ \E o \in Outcomes : PTranslate(o)

SpecKeep == InitKeep /\ [][NextKeep]_vars

-----------------------------------------------------------------------------
(* is_header_or_footer and _split_text_for_translation called on their own *)

MaxTextLen == 4

\* page heights with the cuts at 30 and 470, 47.4 and 742.6, 50.52 and 791.48
HFHeights == {500, 790, 842}
HFYs == {0, 29, 30, 31, 47, 48, 50, 51, 400, 469, 470, 471, 742, 743, 791, 792}

HFCalls ==
    {[name |-> "is_header_or_footer", rect |-> Rect(50, c[2], 550, c[3]), page_height |-> c[1]] :
        c \in {d \in HFHeights \X HFYs \X HFYs : d[2] <= d[3] /\ d[3] <= d[1]}}

SplitAlphabet == {"a", "sp", "nl", "dot", "W"}

SplitCalls ==
    {[name |-> "_split_text_for_translation", text |-> t, max_chars |-> MAX_CHARS] :
        t \in UNION {[1 .. n -> SplitAlphabet] : n \in 0 .. MaxTextLen}}

\* the script is not running a job
InitOff ==
    /\ InitProcess
    /\ mainpc = "idle"
    /\ budget = [jobs |-> 0, elems |-> 0, long |-> FALSE]
    /\ page = NoPage
    /\ params = NoParams
    /\ ppc = "none"

InitFn ==
    /\ InitOff
    /\ fn \in HFCalls \cup SplitCalls
    /\ fret = [st |-> "pending"]
    /\ lru = NoLru
    /\ lruUse = <<>>
    /\ lruVal = <<>>
    /\ lruLast = NoOp

CallIsHeaderOrFooter ==
    /\ fn.name = "is_header_or_footer"
    /\ fret.st = "pending"
    /\ fret' = [st |-> "returned", val |-> IsHeaderOrFooter(fn.rect, fn.page_height)]
    /\ UNCHANGED <<fn, lru, lruUse, lruVal, lruLast>>
    /\ UNCHANGED tvars
    /\ UNCHANGED pvars

CallSplitTextForTranslation ==
    /\ fn.name = "_split_text_for_translation"
    /\ fret.st = "pending"
    /\ fret' = [st |-> "returned", val |-> SplitTextForTranslation(fn.text, fn.max_chars)]
    /\ UNCHANGED <<fn, lru, lruUse, lruVal, lruLast>>
    /\ UNCHANGED tvars
    /\ UNCHANGED pvars

NextFn ==
    \/ CallIsHeaderOrFooter
    \/ CallSplitTextForTranslation

SpecFn == InitFn /\ [][NextFn]_vars

-----------------------------------------------------------------------------
(* An LRUCache of a small max_size, used by any number of threads: get and  *)
(* set run under self._lock from their first line to their last, so the    *)
(* calls of the threads take place one after the other, in any order        *)

MaxCacheSize == 2

LruKeys == {"k1", "k2", "k3"}
LruValues == {"v1", "v2"}

KeysOf(data) == [i \in DOMAIN data |-> data[i].key]

Has(s, x) == \E i \in DOMAIN s : s[i] = x

\* history: the key k becomes the most recently used
Touch(use, k) == Append(SelectSeq(use, LAMBDA x : x # k), k)

\* history: the n most recently used keys of use
MostRecent(use, n) == SubSeq(use, Max(1, Len(use) - n + 1), Len(use))

InitLRU ==
    /\ InitOff
    /\ fn = NoFn
    /\ fret = NoRet
    /\ lru \in {[max_size |-> n, data |-> <<>>] : n \in 1 .. MaxCacheSize}
    /\ lruUse = <<>>
    /\ lruVal = [k \in LruKeys |-> "none"]
    /\ lruLast = NoOp

\* lines 176-181, called by some thread
CacheSet(k, v) ==
    LET live == MostRecent(lruUse, lru.max_size)
        after == LRUSet(lru.data, k, v, lru.max_size)
    IN  /\ lru.max_size > 0
        /\ lru' = [lru EXCEPT !.data = after]
        /\ lruUse' = Touch(lruUse, k)
        /\ lruVal' = [lruVal EXCEPT ![k] = v]
        /\ lruLast' = [op |-> "set", key |-> k, found |-> FALSE, val |-> v,
                       live |-> Has(live, k), want |-> v,
                       full |-> Len(live) = lru.max_size,
                       oldest |-> IF live = <<>> THEN "none" ELSE Head(live),
                       evicted |-> {x \in LruKeys :
                                       /\ Has(KeysOf(lru.data), x) \/ x = k
                                       /\ ~Has(KeysOf(after), x)}]
        /\ UNCHANGED <<fn, fret>>
        /\ UNCHANGED tvars
        /\ UNCHANGED pvars

\* lines 169-174, called by some thread
CacheGet(k) ==
    LET live == MostRecent(lruUse, lru.max_size)
        got == LRUGet(lru.data, k)
    IN  /\ lru.max_size > 0
        /\ lru' = [lru EXCEPT !.data = got.data]
        /\ lruUse' = IF Has(live, k) THEN Touch(lruUse, k) ELSE lruUse
        /\ lruLast' = [op |-> "get", key |-> k, found |-> got.found, val |-> got.val,
                       live |-> Has(live, k), want |-> lruVal[k],
                       full |-> Len(live) = lru.max_size,
                       oldest |-> IF live = <<>> THEN "none" ELSE Head(live),
                       evicted |-> {}]
        /\ UNCHANGED <<fn, fret, lruVal>>
        /\ UNCHANGED tvars
        /\ UNCHANGED pvars

NextLRU ==
    \/ \E k \in LruKeys, v \in LruValues : CacheSet(k, v)
    \/ \E k \in LruKeys : CacheGet(k)

SpecLRU == InitLRU /\ [][NextLRU]_vars

-----------------------------------------------------------------------------
(* Properties *)

Range(s) == {s[i] : i \in DOMAIN s}

\* sub is a run of consecutive symbols of s
Contains(s, sub) ==
    \E a \in 0 .. (Len(s) - Len(sub)) : SubSeq(s, a + 1, a + Len(sub)) = sub

\* what translate_text may return for (raw, is_caption): every part either
\* translated under the prompt of the flag or left as it is
ResultsOf(raw, is_caption) ==
    LET parts == SplitTextForTranslation(raw, MAX_CHARS)
        choices == {f \in [DOMAIN parts -> UNION {{Translate(parts[k], is_caption), parts[k]} :
                                                    k \in DOMAIN parts}] :
                       \A k \in DOMAIN parts :
                           f[k] \in {Translate(parts[k], is_caption), parts[k]}}
    IN  {Strip(JoinParas(f)) : f \in choices}

\* the result when every part is translated
FullTranslation(raw, is_caption) ==
    LET parts == SplitTextForTranslation(raw, MAX_CHARS)
    IN  Strip(JoinParas([k \in DOMAIN parts |-> Translate(parts[k], is_caption)]))

\* C1: in translate_text the service is asked at most DEFAULT_RETRIES times
\* for one part; a part for which every attempt failed was tried exactly
\* DEFAULT_RETRIES times and is replaced by its source text, and a call all
\* of whose parts failed returns the source parts, joined and stripped.
C1_RetriesExactlyThenFallback ==
    \A k \in DOMAIN th :
        LET t == th[k] IN
        /\ t.pc = "call" => t.attempt < DEFAULT_RETRIES
        /\ \A i \in DOMAIN t.gaveup :
               t.gaveup[i] # 0 =>
                   /\ t.gaveup[i] = DEFAULT_RETRIES
                   /\ t.out[i] = t.parts[i]
        /\ ( /\ t.pc = "returned"
             /\ t.called
             /\ \A i \in DOMAIN t.gaveup : t.gaveup[i] # 0 )
           => t.ret = Strip(JoinParas(t.parts))

\* C1, witness: a call on a text of two parts has returned after every
\* attempt for both parts failed
C1_Witness ==
    \E k \in DOMAIN th :
        /\ th[k].pc = "returned"
        /\ Len(th[k].parts) = 2
        /\ th[k].gaveup = <<DEFAULT_RETRIES, DEFAULT_RETRIES>>
        /\ th[k].ret = JoinParas(th[k].parts)
        /\ th[k].logged = 2

\* C2: translate_text never raises, whatever the service does, and a call
\* that returns has appended one entry to the error list for every part
\* whose attempts were exhausted, that part being returned as it was.
C2_NeverRaisesLogsOnce ==
    \A k \in DOMAIN th :
        LET t == th[k] IN
        /\ t.pc # "raised"
        /\ t.pc = "returned" /\ t.called =>
               /\ t.logged = Cardinality({i \in DOMAIN t.gaveup : t.gaveup[i] # 0})
               /\ \A i \in DOMAIN t.gaveup : t.gaveup[i] # 0 => t.out[i] = t.parts[i]

\* C3: when a call of translate_text returns, the call before it has
\* returned too, no other call ran in between, and the two have the same
\* flag and texts that are equal once stripped, then the second call asked
\* the service nothing and returns what the first returned.
C3_SecondCallHitsCache ==
    \A k \in DOMAIN th :
        LET t == th[k] IN
        ( /\ t.pc = "returned"
          /\ t.pred.st = "returned"
          /\ Strip(t.pred.raw) = Strip(t.raw)
          /\ t.pred.cap = t.cap )
        => /\ ~t.called
           /\ t.ret = t.pred.ret

\* C4: whatever the interleaving of the workers and the sequence of jobs,
\* one (text, flag) is sent to the service by at most one translate_text call.
C4_SentByAtMostOneCall ==
    \A x, y \in sent : x.key = y.key => x.job = y.job /\ x.task = y.task

\* C5: when batch_translate_elements has returned, the list has the length
\* and the types it had, every text or caption of two characters or more
\* holds a result of translate_text for the content and the flag of that
\* very element, and every other element is as it was.
C5_ReassembledInSubmissionOrder ==
    mainpc = "render" =>
        /\ Len(elements) = Len(input)
        /\ \A i \in DOMAIN input :
               /\ elements[i].type = input[i].type
               /\ IF input[i].type \in {"text", "caption"}
                     /\ PyLen(Strip(input[i].content)) >= 2
                  THEN elements[i].content
                           \in ResultsOf(input[i].content, input[i].type = "caption")
                  ELSE elements[i] = input[i]

\* C5, witness: a batch of two tasks with different translations has
\* returned, and the task submitted first was the last to complete
C5_Witness ==
    /\ mainpc = "render"
    /\ indices = <<1, 2>>
    /\ <<input[1].content, input[1].type>> # <<input[2].content, input[2].type>>
    /\ elements[1].content = FullTranslation(input[1].content, input[1].type = "caption")
    /\ elements[2].content = FullTranslation(input[2].content, input[2].type = "caption")
    /\ elements[1].content # elements[2].content
    /\ lastCall.raw = input[1].content
    /\ lastCall.cap = (input[1].type = "caption")

\* C6: the element stream parse_page builds is in non-decreasing order of
\* the y0 of what each element is made of (the first block of a text, the
\* block of a caption, the gap rectangle of an image).
C6_StreamOrderedByY0 ==
    ppc \in {"translate", "done", "raised"} =>
        \A i, j \in DOMAIN streamSrc :
            i < j => streamSrc[i].y0 <= streamSrc[j].y0

\* C7: a block with y1 < 0.06 * page height or y0 > 0.94 * page height is
\* no text interval of build_gap_rects_from_text_blocks, no element of the
\* stream is made of it, and its text is in no text or caption element,
\* before or after translation.
C7_HeaderFooterExcluded ==
    \A i \in DOMAIN page.blocks :
        LET b == page.blocks[i] IN
        (b.rect.y1 * 100 < 6 * page.height \/ b.rect.y0 * 100 > 94 * page.height) =>
            /\ i \notin text_blocks
            /\ \A j \in DOMAIN streamSrc : i \notin Range(streamSrc[j].blocks)
            /\ ppc \in {"translate", "done", "raised"} =>
                   \A j \in DOMAIN input :
                       input[j].type # "image" => ~Contains(input[j].content, b.text)
            /\ ppc = "done" =>
                   \A j \in DOMAIN elements :
                       elements[j].type # "image" => ~Contains(elements[j].content, b.text)

\* C7, witness: parse_page has ended on a page with a block in the header
\* or footer band and a block of the body, which is in the stream
C7_Witness ==
    /\ ppc = "done"
    /\ \E i \in DOMAIN page.blocks :
           \/ page.blocks[i].rect.y1 * 100 < 6 * page.height
           \/ page.blocks[i].rect.y0 * 100 > 94 * page.height
    /\ \E j \in DOMAIN streamSrc : streamSrc[j].kind = "text"
    /\ Len(elements) = Len(streamSrc)

\* C8: every rectangle build_gap_rects_from_text_blocks returns is at
\* least min_gap_height high, and so is the region of every image element
\* parse_page emits.
C8_GapHeightFloor ==
    /\ \A i \in DOMAIN gap_rects :
           gap_rects[i].y1 - gap_rects[i].y0 >= params.min_gap_height
    /\ \A j \in DOMAIN streamSrc :
           streamSrc[j].kind = "image" =>
               streamSrc[j].rect.y1 - streamSrc[j].rect.y0 >= params.min_gap_height

\* C8, witness: parse_page has emitted an image for a gap exactly
\* min_gap_height high, on a page where a lower gap between text was left out
C8_Witness ==
    /\ ppc = "done"
    /\ \E j \in DOMAIN streamSrc :
           /\ streamSrc[j].kind = "image"
           /\ streamSrc[j].rect.y1 - streamSrc[j].rect.y0 = params.min_gap_height
    /\ Len(gap_rects) < Len(BodyItems(page)) + 1

\* C9: should_keep_cropped_region accepts a region with under 10 characters
\* of text iff its visual score is at least 35, one with text that is not
\* formula-like iff the score is at least 40, one with formula-like text
\* iff the score is at least 62; no region with a score under 35 is
\* accepted, and a region that is not accepted gives no image element.
C9_ThreeTierDecision ==
    \A i \in DOMAIN probed :
        LET pr == probed[i].probe
            tier == IF pr.txt.len < 10 THEN 35
                    ELSE IF ~IsFormulaLikeText(pr.txt) THEN 40
                    ELSE 62
        IN  /\ probed[i].keep <=> pr.vscore >= tier * VScale
            /\ pr.vscore < 35 * VScale => ~probed[i].keep
            /\ ~probed[i].keep =>
                   /\ probed[i].rect \notin Range(cropped)
                   /\ \A j \in DOMAIN streamSrc :
                          streamSrc[j].kind = "image" => streamSrc[j].rect # probed[i].rect

\* C9, witness: parse_page has ended after a region of long formula-like
\* text with a score just under 62 was turned down, with no image in the stream
C9_Witness ==
    /\ ppc = "done"
    /\ Len(probed) = 1
    /\ IsFormulaLikeText(probed[1].probe.txt)
    /\ probed[1].probe.vscore = 62 * VScale - 1
    /\ ~probed[1].keep
    /\ \A j \in DOMAIN streamSrc : streamSrc[j].kind # "image"

C11_GapsClearOfBandsAndMargins ==
    \A i \in DOMAIN gap_rects :
        /\ gap_rects[i].y0 * 100 >= 6 * page.height
        /\ gap_rects[i].y1 * 100 <= 94 * page.height
        /\ gap_rects[i].y0 >= params.top_margin
        /\ gap_rects[i].y1 <= page.height - params.bottom_margin

\* C12: is_header_or_footer(rect, page_height) is true exactly when the
\* bottom edge of the rectangle is above 0.06 * page_height (the whole
\* rectangle is in the top 6%) or its top edge is below 0.94 * page_height
\* (the whole rectangle is in the bottom 6%), for every page height.
C12_HeaderFooterWholeRectInBand ==
    (fn.name = "is_header_or_footer" /\ fret.st = "returned") =>
        (fret.val <=> \/ fn.rect.y1 * 100 < 6 * fn.page_height
                      \/ fn.rect.y0 * 100 > 94 * fn.page_height)

\* C12, witness: a rectangle whose top edge is in the top 6% of the page and
\* whose bottom edge is not has been tested, and is no header or footer
C12_Witness ==
    /\ fn.name = "is_header_or_footer"
    /\ fret.st = "returned"
    /\ fn.rect.y0 * 100 < 6 * fn.page_height
    /\ fn.rect.y1 * 100 >= 6 * fn.page_height
    /\ fn.rect.y1 * 100 <= 94 * fn.page_height
    /\ ~fret.val

\* C12 as first stated: is_header_or_footer is true exactly when the top
\* edge of the rectangle (y0) is in the top 6% of the page height or its
\* bottom edge (y1) is in the bottom 6%.
C12_HeaderFooterNearEdgeInBand ==
    (fn.name = "is_header_or_footer" /\ fret.st = "returned") =>
        (fret.val <=> \/ fn.rect.y0 * 100 < 6 * fn.page_height
                      \/ fn.rect.y1 * 100 > 94 * fn.page_height)

\* the symbols of s that are not white space
NonBlank(s) == SelectSeq(s, LAMBDA c : c \notin WS)

\* the chunks one after the other
RECURSIVE Flatten(_)
Flatten(chunks) ==
    IF chunks = <<>> THEN <<>> ELSE Head(chunks) \o Flatten(Tail(chunks))

\* C13: every chunk _split_text_for_translation returns is at most
\* max_chars long, and the chunks, in order, hold the characters of the
\* text that are not white space, none lost, repeated or moved.
C13_ChunksBoundedAndComplete ==
    (fn.name = "_split_text_for_translation" /\ fret.st = "returned") =>
        /\ \A i \in DOMAIN fret.val : PyLen(fret.val[i]) <= fn.max_chars
        /\ NonBlank(Flatten(fret.val)) = NonBlank(fn.text)

\* C14: an LRUCache never holds more than max_size entries; the keys it
\* holds are the max_size most recently used ones, a set and a successful
\* get making a key the most recently used, so that a set which goes over
\* max_size evicts the least recently used key and no other; every entry
\* has the value of the latest set of its key, and a get returns it for a
\* key that was set and not evicted since, and nothing for any other key.
C14_LRUCacheBoundedAndLeastRecentEvicted ==
    lru.max_size > 0 =>
        /\ Len(lru.data) <= lru.max_size
        /\ KeysOf(lru.data) = MostRecent(lruUse, lru.max_size)
        /\ \A i \in DOMAIN lru.data : lru.data[i].val = lruVal[lru.data[i].key]
        /\ lruLast.op = "get" =>
               /\ lruLast.found <=> lruLast.live
               /\ lruLast.found => lruLast.val = lruLast.want
        /\ lruLast.op = "set" =>
               lruLast.evicted = IF lruLast.full /\ ~lruLast.live
                                 THEN {lruLast.oldest} ELSE {}

\* C14, witness: in a cache for two entries that held k2 and k1, k2 the
\* less recently used, a set of k3 has evicted k2 and kept k1
C14_Witness ==
    /\ lru.max_size = 2
    /\ lruLast.op = "set"
    /\ lruLast.evicted # {}
    /\ Len(lruUse) = 3
    /\ lruLast.key = "k3"
    /\ KeysOf(lru.data) = <<"k1", "k3">>
    /\ lruLast.evicted = {"k2"}
    /\ lru.data[1].val = "v2"

\* C15: no text block that is neither header, footer nor blank reaches
\* into a rectangle build_gap_rects_from_text_blocks returns (its range
\* [y0, y1] does not meet the open range of the rectangle), and a page
\* without such a block gives no rectangle.
C15_NoTextBlockInsideGap ==
    ppc \notin {"none", "start"} =>
        LET body == {i \in DOMAIN page.blocks :
                        /\ ~(page.blocks[i].rect.y1 * 100 < 6 * page.height)
                        /\ ~(page.blocks[i].rect.y0 * 100 > 94 * page.height)
                        /\ Strip(page.blocks[i].text) # <<>>}
        IN  /\ \A i \in body : \A g \in DOMAIN gap_rects :
                   \/ page.blocks[i].rect.y1 <= gap_rects[g].y0
                   \/ page.blocks[i].rect.y0 >= gap_rects[g].y1
            /\ body = {} => gap_rects = <<>>

\* C15, witness: the rectangles are built for a page with two blocks of
\* text, the lower one first in the list, and one of them lies between the two
C15_Witness ==
    /\ ppc = "classify"
    /\ Len(page.blocks) = 2
    /\ page.blocks[1].rect.y0 > page.blocks[2].rect.y1
    /\ \E g \in DOMAIN gap_rects :
           /\ gap_rects[g].y0 = page.blocks[2].rect.y1
           /\ gap_rects[g].y1 = page.blocks[1].rect.y0

====
